---- MODULE Spec2Model ----
(***************************************************************************)
(* A model of os2mo_tools/mo_api.py: the Connector (organisation           *)
(* discovery, the two paginated listings get_ous / get_employees) and the  *)
(* lazily populated MOData entity (detail index, detail cache).            *)
(*                                                                         *)
(* URLs are sequences of tokens: Python's string concatenation and         *)
(* str.format are concatenation of token sequences, and what the remote    *)
(* service sees of a URL is what ParseQuery computes from the tokens.      *)
(***************************************************************************)
EXTENDS Integers, Sequences, FiniteSets, TLC

VARIABLES
    cstate,      \* Connector.__init__: "new", "ready" or "failed"
    mo_url,      \* Connector.mo_url
    api_token,   \* Connector.api_token
    session,     \* the headers of Connector.session
    org_arg,     \* the org_uuid argument of Connector.__init__
    org_id,      \* Connector.org_id
    organisations, \* the local organisations of _get_org (<<>> before it runs)
    warnings,    \* number of logger.warning records
    cerr,        \* the exception Connector.__init__ raised, or None
    requests,    \* every session.get issued, in order
    gpc,         \* position of the listing generator
    gkind,       \* "ou" (get_ous) or "e" (get_employees)
    groot,       \* the root argument of get_ous
    gurl,        \* the local ou_url / employee_url of the generator
    total,       \* total_ous / total_employees
    start,       \* the local start
    probeItems,  \* the items of the probe response (never read by the code)
    resp,        \* the JSON of the last page response
    pages,       \* the items lists of the page responses, in order
    buf,         \* what `yield from` has still to deliver of the current page
    yielded,     \* the items delivered to the consumer, in order
    gerr,        \* the exception the generator raised, or None
    pending,     \* the consumer has asked the generator for an item and waits for it
    ekind,       \* the wrapped entity: "ou" (OrgUnit), "e" (Employee), None before
    uuid,        \* MOData.uuid
    validity,    \* MOData.validity
    validity_arg, \* the validity argument the wrapper was created with, None if omitted
    details,     \* the cached_property _details: [cached, val]
    stored_details, \* MOData._stored_details, a dict: its DOMAIN are its keys
    ent_json,    \* the cached_property json: [cached, val]
    ent_children, \* the cached_property children: [cached, val]
    got,         \* per detail name and cached property, what its answered requests returned
    threads,     \* two callers of __getattr__: position, entity, name, local value
    ents,        \* the entities the two callers share: _details, _stored_details,
                 \* their callers and the number of requests issued for them
    called,      \* the detail names that were asked for before
    ret          \* the outcome of the last attribute access

vars == <<cstate, mo_url, api_token, session, org_arg, org_id, organisations, warnings, cerr, requests,
          gpc, gkind, groot, gurl, total, start, probeItems, resp, pages,
          buf, yielded, gerr, pending, ekind, uuid, validity, validity_arg, details,
          stored_details, ent_json, ent_children, got, threads, ents, called, ret>>

connVars == <<cstate, mo_url, api_token, session, org_arg, org_id, organisations, warnings, cerr>>
genVars == <<gpc, gkind, groot, gurl, total, start, probeItems, resp, pages,
             buf, yielded, gerr, pending>>
entVars == <<ekind, uuid, validity, validity_arg, details, stored_details, ent_json,
             ent_children, got, threads, ents, called, ret>>
propVars == <<ent_json, ent_children>>
raceVars == <<threads, ents>>

-----------------------------------------------------------------------------
(* Bounds of the model *)

MaxOrgs == 2        \* longest discovery response
MaxPages == 3       \* the probe's total is at most MaxPages * offset
MaxPageItems == 1   \* longest items list of one modelled page response
MaxPayload == 1     \* longest modelled detail payload
MaxFails == 1       \* failed requests modelled on one entity

(* Program constants and values *)

offset == 1000

None == "None"      \* Python's None

MoUrls == {<<"http://mo/service">>, <<"https://mo.example/service">>}

Tokens == {None, "", "secret"}

OrgIds == {"org1", "org2"}

Roots == {"root1"}

Items == {"a", "b"}

-----------------------------------------------------------------------------
(* Python truthiness of an optional string: None and "" are falsy *)
Truthy(x) == x # None /\ x # ""

RECURSIVE SeqsUpTo(_, _)
SeqsUpTo(S, n) ==
    IF n = 0 THEN {<<>>}
    ELSE LET shorter == SeqsUpTo(S, n - 1)
         IN  shorter \cup {Append(s, x) : s \in {t \in shorter : Len(t) = n - 1}, x \in S}

RECURSIVE Flatten(_)
Flatten(ss) == IF ss = <<>> THEN <<>> ELSE Head(ss) \o Flatten(Tail(ss))

Ceil(a, b) == (a + b - 1) \div b

-----------------------------------------------------------------------------
(* What the remote service reads from a URL *)

RECURSIVE IndexOf(_, _, _)
IndexOf(s, t, i) ==
    IF i > Len(s) THEN 0
    ELSE IF s[i] = t THEN i
    ELSE IndexOf(s, t, i + 1)

UrlPath(url) ==
    LET q == IndexOf(url, "?", 1)
    IN  IF q = 0 THEN url ELSE SubSeq(url, 1, q - 1)

UrlQuery(url) ==
    LET q == IndexOf(url, "?", 1)
    IN  IF q = 0 THEN <<>> ELSE SubSeq(url, q + 1, Len(url))

RECURSIVE Split(_, _)
Split(s, sep) ==
    LET i == IndexOf(s, sep, 1)
    IN  IF i = 0 THEN <<s>>
        ELSE <<SubSeq(s, 1, i - 1)>> \o Split(SubSeq(s, i + 1, Len(s)), sep)

Param(seg) ==
    LET e == IndexOf(seg, "=", 1)
    IN  IF e = 0 THEN [key |-> seg, val |-> <<>>]
        ELSE [key |-> SubSeq(seg, 1, e - 1), val |-> SubSeq(seg, e + 1, Len(seg))]

ParseQuery(url) ==
    LET q == UrlQuery(url)
    IN  IF q = <<>> THEN <<>>
        ELSE LET segs == Split(q, "&")
             IN  [i \in 1..Len(segs) |-> Param(segs[i])]

(* The query the service receives: the URL's own query, then the params *)
Query(req) == ParseQuery(req.url) \o req.params

Values(q, k) == {q[i].val : i \in {j \in 1..Len(q) : q[j].key = <<k>>}}
Count(q, k) == Cardinality({j \in 1..Len(q) : q[j].key = <<k>>})

-----------------------------------------------------------------------------
(* Connector.mo_get: one session.get; the answer is the caller's choice of *)
(* a JSON value or the exception raise_for_status raises                   *)

Request(op, url, params, ok) == [op |-> op, url |-> url, params |-> params, ok |-> ok]

HTTPError == "HTTPError"

-----------------------------------------------------------------------------
(* Connector.__init__ and Connector._get_org *)

OrgArgs == {None, ""} \cup OrgIds

DiscoveryResponses == SeqsUpTo([uuid : OrgIds], MaxOrgs)

DiscoveryUrl(url) == url \o <<"/o/">>

(* lines 86-90 *)
SessionHeaders(token) ==
    IF Truthy(token) THEN <<[key |-> "session", val |-> token]>> ELSE <<>>

(* a test for None only: an empty org_uuid is taken as given *)
NeedsDiscoveryIfNone(org_uuid) == org_uuid = None

(* line 92: `if org_uuid` *)
NeedsDiscovery(org_uuid) == ~Truthy(org_uuid)

(* the last organisation of the answer instead of the first *)
PickLastOrg(orgs) == orgs[Len(orgs)].uuid

(* line 115 *)
PickOrg(orgs) == orgs[1].uuid

(* lines 111-114: the number of warnings logged for a non-empty answer *)
WarnIf(orgs) == IF Len(orgs) > 1 THEN 1 ELSE 0

(* line 110: `if organisations` *)
Found(orgs) == orgs # <<>>

ConstructExplicit(url, org_uuid, token) ==
    /\ cstate = "new"
    /\ ~NeedsDiscovery(org_uuid)
    /\ mo_url' = url
    /\ api_token' = token
    /\ session' = SessionHeaders(token)
    /\ org_arg' = org_uuid
    /\ org_id' = org_uuid
    /\ cstate' = "ready"
    /\ UNCHANGED <<organisations, warnings, cerr, requests, genVars, entVars>>

ConstructDiscover(url, org_uuid, token, ok, answer) ==
    /\ cstate = "new"
    /\ NeedsDiscovery(org_uuid)
    /\ mo_url' = url
    /\ api_token' = token
    /\ session' = SessionHeaders(token)
    /\ org_arg' = org_uuid
    /\ requests' = Append(requests, Request("discovery", DiscoveryUrl(url), <<>>, ok))
    /\ IF ~ok
       THEN /\ cstate' = "failed"
            /\ cerr' = HTTPError
            /\ UNCHANGED <<org_id, organisations, warnings>>
       ELSE /\ organisations' = answer
            /\ IF Found(answer)
               THEN /\ warnings' = warnings + WarnIf(answer)
                    /\ org_id' = PickOrg(answer)
                    /\ cstate' = "ready"
                    /\ cerr' = cerr
               ELSE /\ cstate' = "failed"
                    /\ cerr' = "NoOrganizationFound"
                    /\ UNCHANGED <<org_id, warnings>>
    /\ UNCHANGED <<genVars, entVars>>

Construct ==
    \E url \in MoUrls, org_uuid \in OrgArgs, token \in Tokens :
        \/ ConstructExplicit(url, org_uuid, token)
        \/ \E answer \in DiscoveryResponses :
               ConstructDiscover(url, org_uuid, token, TRUE, answer)
        \/ ConstructDiscover(url, org_uuid, token, FALSE, <<>>)

-----------------------------------------------------------------------------
(* Connector.get_ous and Connector.get_employees: generators.  Calling one *)
(* creates the generator and runs none of its body; the body then runs     *)
(* from one yield to the next as the consumer asks for items.              *)

Totals == {t \in 0..(MaxPages * offset) : t % offset \in {0, 500}}

ItemLists == SeqsUpTo(Items, MaxPageItems)

(* The probe asks for limit=1: at most one item, which the code never reads *)
ProbeResponses == [total : Totals, items : {<<>>, <<"a">>}]

PageResponses(t) == [total : {0, t, t + offset}, items : ItemLists]

OuUrl == mo_url \o <<"/o/", org_id, "/ou/">>

EmployeeUrl == mo_url \o <<"/o/", org_id, "/e/">>

RootPart(root) == IF Truthy(root) THEN <<"&", "root", "=", root>> ELSE <<>>

Limit1Url(url, root) == url \o <<"?", "limit", "=", "1">> \o RootPart(root)

PageFormat(url, limit, st) ==
    url \o <<"?", "limit", "=", ToString(limit), "&", "start", "=", ToString(st)>>

(* get_ous, lines 130-132: the formatted URL is assigned back to ou_url *)
OuPageUrl(ou_url, st, root) == PageFormat(ou_url, offset, st) \o RootPart(root)

(* limit and start handed to format in the wrong order *)
EmployeePageUrlSwapped(employee_url, st) == PageFormat(employee_url, st, offset)

(* get_employees, line 150: employee_url itself is left alone *)
EmployeePageUrl(employee_url, st) == PageFormat(employee_url, offset, st)

(* a loop that gives up at the first page without items *)
LoopGuardUntilEmpty(st, tot) ==
    st < tot /\ (IF pages = <<>> THEN TRUE ELSE pages[Len(pages)] # <<>>)

(* a loop test that also admits start = total *)
LoopGuardInclusive(st, tot) == st <= tot

LoopGuard(st, tot) == st < tot

Advance(st) == st + offset

get_ous(root) ==
    /\ cstate = "ready"
    /\ gpc = "none"
    /\ gpc' = "created"
    /\ gkind' = "ou"
    /\ groot' = root
    /\ UNCHANGED <<connVars, entVars, requests, gurl, total, start, probeItems, resp,
                   pages, buf, yielded, gerr, pending>>

get_employees ==
    /\ cstate = "ready"
    /\ gpc = "none"
    /\ gpc' = "created"
    /\ gkind' = "e"
    /\ UNCHANGED <<connVars, entVars, requests, groot, gurl, total, start, probeItems,
                   resp, pages, buf, yielded, gerr, pending>>

(* a generator that is not held back by its consumer *)
RunningAlways == TRUE

(* lines 119 and 141: the functions are generators, their body runs only  *)
(* while the consumer waits in next()                                     *)
Running == pending

(* the consumer asks a suspended generator for its next item *)
Demand ==
    /\ gpc \in {"created", "yielding"}
    /\ ~pending
    /\ pending' = TRUE
    /\ UNCHANGED <<connVars, entVars, requests, gpc, gkind, groot, gurl, total, start,
                   probeItems, resp, pages, buf, yielded, gerr>>

(* a failed request that is swallowed: the loop goes on *)
RaiseAndGoOn(err) ==
    /\ gpc' = "loop"
    /\ gerr' = err
    /\ pending' = pending

(* What a failed mo_get does to the generator: the exception leaves it   *)
(* and reaches the consumer                                               *)
Raise(err) ==
    /\ gpc' = "failed"
    /\ gerr' = err
    /\ pending' = FALSE

(* lines 121-127 and 143-146: up to the first evaluation of the loop test *)
Probe(ok, json) ==
    /\ gpc = "created"
    /\ Running
    /\ gurl' = IF gkind = "ou" THEN OuUrl ELSE EmployeeUrl
    /\ requests' = Append(requests, Request("probe", Limit1Url(gurl', groot), <<>>, ok))
    /\ IF ok
       THEN /\ total' = json.total
            /\ probeItems' = json.items
            /\ start' = 0
            /\ gpc' = "loop"
            /\ gerr' = gerr
            /\ pending' = pending
       ELSE /\ Raise(HTTPError)
            /\ UNCHANGED <<total, probeItems, start>>
    /\ UNCHANGED <<connVars, entVars, gkind, groot, resp, pages, buf, yielded>>

(* What yield from is handed: the items of the page response *)
ToYield(json) == json.items

(* lines 129-135 and 148-151: the loop test holds, the page is requested *)
Page(ok, json) ==
    /\ gpc = "loop"
    /\ Running
    /\ LoopGuard(start, total)
    /\ IF gkind = "ou"
       THEN /\ gurl' = OuPageUrl(gurl, start, groot)
            /\ requests' = Append(requests, Request("page", gurl', <<>>, ok))
       ELSE /\ gurl' = gurl
            /\ requests' = Append(requests,
                                  Request("page", EmployeePageUrl(gurl, start), <<>>, ok))
    /\ IF ok
       THEN /\ resp' = json
            /\ pages' = Append(pages, json.items)
            /\ buf' = ToYield(json)
            /\ gpc' = "yielding"
            /\ gerr' = gerr
            /\ pending' = pending
       ELSE /\ Raise(HTTPError)
            /\ UNCHANGED <<resp, pages, buf>>
    /\ UNCHANGED <<connVars, entVars, gkind, groot, total, start, probeItems, yielded>>

(* a yield that skips an item already delivered *)
YieldDistinct ==
    /\ gpc = "yielding"
    /\ Running
    /\ buf # <<>>
    /\ yielded' = IF \E i \in 1..Len(yielded) : yielded[i] = Head(buf)
                  THEN yielded
                  ELSE Append(yielded, Head(buf))
    /\ pending' = (yielded' = yielded)
    /\ buf' = Tail(buf)
    /\ UNCHANGED <<connVars, entVars, requests, gpc, gkind, groot, gurl, total, start,
                   probeItems, resp, pages, gerr>>

(* yield from: one item is handed to the consumer, the generator is     *)
(* suspended                                                              *)
Yield ==
    /\ gpc = "yielding"
    /\ Running
    /\ buf # <<>>
    /\ yielded' = Append(yielded, Head(buf))
    /\ pending' = FALSE
    /\ buf' = Tail(buf)
    /\ UNCHANGED <<connVars, entVars, requests, gpc, gkind, groot, gurl, total, start,
                   probeItems, resp, pages, gerr>>

(* lines 136 and 152: the page is exhausted, start += offset *)
PageEnd ==
    /\ gpc = "yielding"
    /\ Running
    /\ buf = <<>>
    /\ start' = Advance(start)
    /\ gpc' = "loop"
    /\ UNCHANGED <<connVars, entVars, requests, gkind, groot, gurl, total, probeItems,
                   resp, pages, buf, yielded, gerr, pending>>

(* the loop test fails: the generator returns, the consumer gets        *)
(* StopIteration                                                          *)
Return ==
    /\ gpc = "loop"
    /\ Running
    /\ ~LoopGuard(start, total)
    /\ gpc' = "done"
    /\ pending' = FALSE
    /\ UNCHANGED <<connVars, entVars, requests, gkind, groot, gurl, total, start,
                   probeItems, resp, pages, buf, yielded, gerr>>

-----------------------------------------------------------------------------
(* MOData, OrgUnit and Employee: one wrapped entity *)

Names == {"manager", "address", "engagement"}

Validities == {"present", "all"}

Uuids == {"uuid1"}

PayloadItems == {"x"}

Payloads == SeqsUpTo(PayloadItems, MaxPayload)

(* The detail index: detail names mapped to a truthy or falsy flag; the   *)
(* modelled service knows the names of IndexNames only                    *)
IndexNames == {"manager", "address"}

Indexes == UNION {[S -> BOOLEAN] : S \in SUBSET IndexNames}

EmptyDict == [n \in {} |-> <<>>]

NoIndex == [n \in {} |-> TRUE]

Failed == {r \in 1..Len(requests) : ~requests[r].ok}

MayFail == Cardinality(Failed) < MaxFails

IndexAnswers ==
    {[ok |-> TRUE, json |-> j] : j \in Indexes}
        \cup (IF MayFail THEN {[ok |-> FALSE, json |-> NoIndex]} ELSE {})

PayloadAnswers ==
    {[ok |-> TRUE, json |-> j] : j \in Payloads}
        \cup (IF MayFail THEN {[ok |-> FALSE, json |-> <<>>]} ELSE {})

(* a cache test on the stored value: an empty payload counts as not stored *)
LookupRefetchEmpty(name, idx, st) ==
    IF name \in DOMAIN idx
    THEN IF (name \notin DOMAIN st \/ st[name] = <<>>) /\ idx[name]
         THEN "fetch" ELSE "stored"
    ELSE "error"

(* the flag of the index is not looked at *)
LookupIgnoreFlag(name, idx, st) ==
    IF name \in DOMAIN idx
    THEN IF name \notin DOMAIN st THEN "fetch" ELSE "stored"
    ELSE "error"

(* a name the index does not know is read from the defaultdict *)
LookupLenient(name, idx, st) ==
    IF name \in DOMAIN idx /\ name \notin DOMAIN st /\ idx[name]
    THEN "fetch" ELSE "stored"

(* lines 54-59: which way __getattr__ goes, given the index and the dict *)
Lookup(name, idx, st) ==
    IF name \in DOMAIN idx
    THEN IF name \notin DOMAIN st /\ idx[name] THEN "fetch" ELSE "stored"
    ELSE "error"

(* a _details that is a plain property: computed at every read *)
IndexMissingAlways == TRUE

(* line 41: _details is a cached_property, its function runs while the   *)
(* instance holds no value for it                                         *)
IndexMissing == ~details.cached

(* The answers a call can meet: one placeholder where it asks nothing *)
AnswersForIndex ==
    IF ~IndexMissing THEN {[ok |-> TRUE, json |-> NoIndex]} ELSE IndexAnswers

AnswersForPayload(name, ia) ==
    IF /\ details.cached \/ ia.ok
       /\ Lookup(name, IF details.cached THEN details.val ELSE ia.json,
                 stored_details) = "fetch"
    THEN PayloadAnswers
    ELSE {[ok |-> TRUE, json |-> <<>>]}

(* OrgUnit.__init__ line 72, Employee.__init__ line 81 *)
EntityUrl == mo_url \o <<IF ekind = "ou" THEN "/ou/" ELSE "/e/", uuid, "/">>

(* line 43 *)
DetailsUrl == EntityUrl \o <<"details/">>

(* line 46: the URL and the keyword parameters of _get_detail *)
DetailUrl(detail) == EntityUrl \o <<"details/", detail>>

(* ret when the latest operation on the entity was not a call of __getattr__ *)
NoOutcome == [name |-> None, kind |-> None, value |-> <<>>, reqs |-> <<>>, repeat |-> FALSE]

(* the validity of the request fixed to its default *)
DetailParamsPresent(v) == <<[key |-> <<"validity">>, val |-> <<"present">>]>>

DetailParams(v) == <<[key |-> <<"validity">>, val |-> <<v>>]>>

(* dict assignment, and the read of a defaultdict(list): a missing key is *)
(* inserted with an empty list                                            *)
Put(d, k, v) == [n \in DOMAIN d \cup {k} |-> IF n = k THEN v ELSE d[n]]

(* the read of a plain dict that has the key or is not asked for more *)
DefaultGetPlain(d, k) == d

DefaultGet(d, k) == IF k \in DOMAIN d THEN d ELSE Put(d, k, <<>>)

(* what the read of the defaultdict(list) evaluates to *)
DefaultValue(d, k) == IF k \in DOMAIN d THEN d[k] ELSE <<>>

(* a failed request that leaves an empty payload behind *)
OnHTTPErrorStoreEmpty(d, k) == Put(d, k, <<>>)

(* lines 56 and 102: raise_for_status raises inside _get_detail, before   *)
(* the assignment to _stored_details[name] takes place                    *)
OnHTTPError(d, k) == d

(* lines 138 and 154: validity='present' is the default of the argument *)
ValidityOfArg(v) == IF v = None THEN "present" ELSE v

(* get_ou_connector line 139 and get_employee_connector line 155; v is None *)
(* when the caller gives no validity                                       *)
Wrap(kind, id, v) ==
    /\ cstate = "ready"
    /\ ekind = None
    /\ ekind' = kind
    /\ uuid' = id
    /\ validity_arg' = v
    /\ validity' = ValidityOfArg(v)
    /\ UNCHANGED <<connVars, genVars, propVars, raceVars, requests, details, stored_details, got,
                   called, ret>>

(* an assignment of validity that drops what was fetched under the old one *)
SetValidityInvalidating(v) ==
    /\ ekind # None
    /\ validity' = v
    /\ ret' = NoOutcome
    /\ stored_details' = EmptyDict
    /\ UNCHANGED <<connVars, genVars, propVars, raceVars, requests, ekind, uuid, validity_arg,
                   details, got, called>>

(* the caller assigns the validity attribute of the entity *)
SetValidity(v) ==
    /\ ekind # None
    /\ validity' = v
    /\ ret' = NoOutcome
    /\ UNCHANGED <<connVars, genVars, propVars, raceVars, requests, ekind, uuid, validity_arg,
                   details, stored_details, got, called>>

Outcome(name, kind, value, reqs) ==
    [name |-> name, kind |-> kind, value |-> value, reqs |-> reqs,
     repeat |-> name \in called]

(* MOData.__getattr__(name) as one call; ia and pa are the answers the    *)
(* index request and the payload request get if the call issues them      *)
getattr(name, ia, pa) ==
    /\ ekind # None
    /\ called' = called \cup {name}
    /\ LET fetchIdx == IndexMissing
           idxReq == IF fetchIdx
                     THEN <<Request("index", DetailsUrl, <<>>, ia.ok)>>
                     ELSE <<>>
           idxOps == IF fetchIdx THEN <<"index">> ELSE <<>>
           idx == IF fetchIdx THEN ia.json ELSE details.val
       IN  IF fetchIdx /\ ~ia.ok
           THEN /\ requests' = requests \o idxReq
                /\ ret' = Outcome(name, HTTPError, <<>>, idxOps)
                /\ UNCHANGED <<details, stored_details, got>>
           ELSE /\ details' = [cached |-> TRUE, val |-> idx]
                /\ LET way == Lookup(name, idx, stored_details)
                   IN  CASE way = "error" ->
                              /\ requests' = requests \o idxReq
                              /\ ret' = Outcome(name, "AttributeError", <<>>, idxOps)
                              /\ UNCHANGED <<stored_details, got>>
                         [] way = "stored" ->
                              /\ requests' = requests \o idxReq
                              /\ stored_details' = DefaultGet(stored_details, name)
                              /\ ret' = Outcome(name, "value",
                                                DefaultValue(stored_details, name), idxOps)
                              /\ UNCHANGED got
                         [] way = "fetch" ->
                              /\ requests' = requests \o idxReq \o
                                     <<Request("detail", DetailUrl(name),
                                               DetailParams(validity), pa.ok)>>
                              /\ IF pa.ok
                                 THEN /\ stored_details' = Put(stored_details, name, pa.json)
                                      /\ got' = [got EXCEPT ![name] = Append(@, pa.json)]
                                      /\ ret' = Outcome(name, "value", stored_details'[name],
                                                        idxOps \o <<"detail">>)
                                 ELSE /\ stored_details' = OnHTTPError(stored_details, name)
                                      /\ ret' = Outcome(name, HTTPError, <<>>,
                                                        idxOps \o <<"detail">>)
                                      /\ UNCHANGED got
    /\ UNCHANGED <<connVars, genVars, propVars, raceVars, ekind, uuid, validity, validity_arg>>

(* The properties json and children *)
PropNames == {"json", "children"}

(* what the service can answer for the entity and for its children *)
Bodies == {<<"name1">>, <<"name2">>}

ChildLists == {<<>>, <<"child1">>}

NotCached == [cached |-> FALSE, val |-> <<>>]

PropAnswers(S) ==
    {[ok |-> TRUE, json |-> j] : j \in S}
        \cup (IF MayFail THEN {[ok |-> FALSE, json |-> <<>>]} ELSE {})

(* line 39 *)
ChildrenUrl == EntityUrl \o <<"children/">>

(* a property that is computed at every read *)
MissingAlways(c) == TRUE

(* lines 28 and 33: cached_property runs the function while the instance  *)
(* holds no value for the property                                        *)
Missing(c) == ~c.cached

(* The read of a cached_property whose function is mo_get(url): prop is   *)
(* its cache before the read; the cache after it, the request issued and  *)
(* the outcome                                                            *)
ReadProperty(name, prop, url, a) ==
    IF Missing(prop)
    THEN [reqs |-> <<Request(name, url, <<>>, a.ok)>>,
          prop |-> IF a.ok THEN [cached |-> TRUE, val |-> a.json] ELSE prop,
          ret  |-> [name |-> name, kind |-> IF a.ok THEN "value" ELSE HTTPError,
                    value |-> a.json, reqs |-> <<name>>, repeat |-> FALSE],
          got  |-> IF a.ok THEN <<a.json>> ELSE <<>>]
    ELSE [reqs |-> <<>>, prop |-> prop,
          ret  |-> [name |-> name, kind |-> "value", value |-> prop.val,
                    reqs |-> <<>>, repeat |-> TRUE],
          got  |-> <<>>]

(* lines 28-31: the entity's json is read *)
read_json(a) ==
    /\ ekind # None
    /\ LET r == ReadProperty("json", ent_json, EntityUrl, a)
       IN  /\ requests' = requests \o r.reqs
           /\ ent_json' = r.prop
           /\ ret' = r.ret
           /\ got' = [got EXCEPT !["json"] = @ \o r.got]
    /\ UNCHANGED <<connVars, genVars, raceVars, ekind, uuid, validity, validity_arg, details,
                   stored_details, ent_children, called>>

(* lines 33-39: the entity's children are read *)
read_children(a) ==
    /\ ekind # None
    /\ LET r == ReadProperty("children", ent_children, ChildrenUrl, a)
       IN  /\ requests' = requests \o r.reqs
           /\ ent_children' = r.prop
           /\ ret' = r.ret
           /\ got' = [got EXCEPT !["children"] = @ \o r.got]
    /\ UNCHANGED <<connVars, genVars, raceVars, ekind, uuid, validity, validity_arg, details,
                   stored_details, ent_json, called>>

-----------------------------------------------------------------------------
(* Two callers of __getattr__ on entities they share. A caller can be     *)
(* preempted wherever the interpreter can switch threads: between the     *)
(* read of _details and its storing, between the test of line 55 and the  *)
(* request, between the request and the assignment of line 56. Requests   *)
(* are answered and are counted per entity.                               *)

Threads == {"t1", "t2"}

RaceUuids == {"uuid1", "uuid2"}

(* the names the callers ask for, and the detail index of every entity *)
RaceNames == {"manager", "engagement"}

RaceIndex == [n \in {"manager"} |-> TRUE]

Idle == [pc |-> "idle", ent |-> None, name |-> None, local |-> <<>>]

(* MOData.__init__: nothing cached, no caller and no request yet *)
Fresh == [details |-> [cached |-> FALSE, val |-> NoIndex], stored |-> EmptyDict,
          users |-> {}, index_sent |-> 0, sent |-> [n \in RaceNames |-> 0]]

(* t calls getattr(entity e, n) *)
RaceCall(t, e, n) ==
    /\ cstate = "ready"
    /\ threads[t].pc = "idle"
    /\ threads' = [threads EXCEPT ![t] = [pc |-> "index", ent |-> e, name |-> n,
                                          local |-> <<>>]]
    /\ ents' = [ents EXCEPT ![e].users = @ \cup {t}]
    /\ UNCHANGED <<connVars, genVars, propVars, requests, ekind, uuid, validity,
                   validity_arg, details, stored_details, got, called, ret>>

(* line 54, the read of _details: the cached value, or the index request *)
RaceReadIndex(t) ==
    /\ threads[t].pc = "index"
    /\ LET e == threads[t].ent
       IN  IF ents[e].details.cached
           THEN /\ threads' = [threads EXCEPT ![t].pc = "check"]
                /\ UNCHANGED ents
           ELSE /\ threads' = [threads EXCEPT ![t].pc = "idxstore"]
                /\ ents' = [ents EXCEPT ![e].index_sent = @ + 1]
    /\ UNCHANGED <<connVars, genVars, propVars, requests, ekind, uuid, validity,
                   validity_arg, details, stored_details, got, called, ret>>

(* cached_property stores what its function returned *)
RaceStoreIndex(t) ==
    /\ threads[t].pc = "idxstore"
    /\ threads' = [threads EXCEPT ![t].pc = "check"]
    /\ ents' = [ents EXCEPT ![threads[t].ent].details = [cached |-> TRUE, val |-> RaceIndex]]
    /\ UNCHANGED <<connVars, genVars, propVars, requests, ekind, uuid, validity,
                   validity_arg, details, stored_details, got, called, ret>>

(* lines 54-55 and 57-59: the tests, and the return where nothing is fetched *)
RaceCheck(t) ==
    /\ threads[t].pc = "check"
    /\ LET e == threads[t].ent
           n == threads[t].name
           way == Lookup(n, ents[e].details.val, ents[e].stored)
       IN  CASE way = "fetch" ->
                    /\ threads' = [threads EXCEPT ![t].pc = "request"]
                    /\ UNCHANGED ents
             [] way = "stored" ->
                    /\ threads' = [threads EXCEPT ![t] = Idle]
                    /\ ents' = [ents EXCEPT ![e].stored = DefaultGet(@, n)]
             [] way = "error" ->
                    /\ threads' = [threads EXCEPT ![t] = Idle]
                    /\ UNCHANGED ents
    /\ UNCHANGED <<connVars, genVars, propVars, requests, ekind, uuid, validity,
                   validity_arg, details, stored_details, got, called, ret>>

(* line 56, right-hand side: _get_detail(name) *)
RaceRequest(t, payload) ==
    /\ threads[t].pc = "request"
    /\ ents' = [ents EXCEPT ![threads[t].ent].sent[threads[t].name] = @ + 1]
    /\ threads' = [threads EXCEPT ![t].pc = "write", ![t].local = payload]
    /\ UNCHANGED <<connVars, genVars, propVars, requests, ekind, uuid, validity,
                   validity_arg, details, stored_details, got, called, ret>>

(* a payload that is returned to the caller without being stored *)
RaceWriteDropped(t) ==
    /\ threads[t].pc = "write"
    /\ threads' = [threads EXCEPT ![t] = Idle]
    /\ UNCHANGED <<connVars, genVars, propVars, requests, ents, ekind, uuid, validity,
                   validity_arg, details, stored_details, got, called, ret>>

(* line 56, the assignment, and the return of line 57 *)
RaceWrite(t) ==
    /\ threads[t].pc = "write"
    /\ ents' = [ents EXCEPT ![threads[t].ent].stored =
                                Put(@, threads[t].name, threads[t].local)]
    /\ threads' = [threads EXCEPT ![t] = Idle]
    /\ UNCHANGED <<connVars, genVars, propVars, requests, ekind, uuid, validity,
                   validity_arg, details, stored_details, got, called, ret>>

NextRace ==
    \/ ConstructExplicit(<<"http://mo/service">>, "org1", None)
    \/ \E t \in Threads, e \in RaceUuids, n \in RaceNames : RaceCall(t, e, n)
    \/ \E t \in Threads : RaceReadIndex(t)
    \/ \E t \in Threads : RaceStoreIndex(t)
    \/ \E t \in Threads : RaceCheck(t)
    \/ \E t \in Threads, payload \in Payloads : RaceRequest(t, payload)
    \/ \E t \in Threads : RaceWrite(t)

-----------------------------------------------------------------------------
Blank ==
    /\ mo_url = <<>>
    /\ api_token = None
    /\ session = <<>>
    /\ org_arg = None
    /\ org_id = None
    /\ organisations = <<>>
    /\ warnings = 0
    /\ cerr = None
    /\ requests = <<>>
    /\ gpc = "none"
    /\ gkind = None
    /\ groot = None
    /\ gurl = <<>>
    /\ total = 0
    /\ start = 0
    /\ probeItems = <<>>
    /\ resp = [total |-> 0, items |-> <<>>]
    /\ pages = <<>>
    /\ buf = <<>>
    /\ yielded = <<>>
    /\ gerr = None
    /\ pending = FALSE
    /\ ekind = None
    /\ uuid = None
    /\ validity = None
    /\ validity_arg = None
    /\ details = [cached |-> FALSE, val |-> NoIndex]
    /\ stored_details = EmptyDict
    /\ threads = [t \in Threads |-> Idle]
    /\ ents = [e \in RaceUuids |-> Fresh]
    /\ ent_json = NotCached
    /\ ent_children = NotCached
    /\ got = [n \in Names \cup PropNames |-> <<>>]
    /\ called = {}
    /\ ret = NoOutcome

(* Construction of a Connector *)
InitConnector ==
    /\ cstate = "new"
    /\ Blank

NextConnector == Construct

SpecConnector == InitConnector /\ [][NextConnector]_vars

(* One listing on a Connector that was constructed with an org_uuid *)
Init ==
    /\ cstate = "new"
    /\ Blank

Next ==
    \/ ConstructExplicit(<<"http://mo/service">>, "org1", None)
    \/ \E root \in {None} \cup Roots : get_ous(root)
    \/ get_employees
    \/ Demand
    \/ \E json \in ProbeResponses : Probe(TRUE, json)
    \/ Probe(FALSE, [total |-> 0, items |-> <<>>])
    \/ \E json \in PageResponses(total) : Page(TRUE, json)
    \/ Page(FALSE, [total |-> 0, items |-> <<>>])
    \/ Yield
    \/ PageEnd
    \/ Return

Spec == Init /\ [][Next]_vars

(* One entity wrapped by a Connector that was constructed with an org_uuid *)
NextEntity ==
    \/ ConstructExplicit(<<"http://mo/service">>, "org1", None)
    \/ \E kind \in {"ou", "e"}, id \in Uuids, v \in Validities \cup {None} :
           Wrap(kind, id, v)
    \/ \E v \in Validities : SetValidity(v)
    \/ \E name \in Names :
           \E ia \in AnswersForIndex : \E pa \in AnswersForPayload(name, ia) :
               getattr(name, ia, pa)

SpecEntity == Init /\ [][NextEntity]_vars

(* the index of the service of SpecCaches *)
TheIndex == [n \in IndexNames |-> n = "manager"]

(* One entity whose properties and details are read in any order; the    *)
(* service has one detail index                                           *)
NextCaches ==
    \/ ConstructExplicit(<<"http://mo/service">>, "org1", None)
    \/ Wrap("ou", "uuid1", None)
    \/ SetValidity("all")
    \/ \E a \in PropAnswers(Bodies) : read_json(a)
    \/ \E a \in PropAnswers(ChildLists) : read_children(a)
    \/ \E name \in IndexNames :
           \E ia \in {x \in AnswersForIndex : x.ok => x.json \in {NoIndex, TheIndex}} :
               \E pa \in AnswersForPayload(name, ia) :
                   getattr(name, ia, pa)

SpecCaches == Init /\ [][NextCaches]_vars

(* Two callers and two entities *)
SpecRace == Init /\ [][NextRace]_vars

-----------------------------------------------------------------------------
(* Properties of the listings, checked under Spec *)

PageRequests == SelectSeq(requests, LAMBDA r : r.op = "page")

ProbeRequests == SelectSeq(requests, LAMBDA r : r.op = "probe")

CollectionPath == mo_url \o <<"/o/", org_id, IF gkind = "ou" THEN "/ou/" ELSE "/e/">>

(* C1: a listing that ran to its end issued one probe request (limit=1)    *)
(* and then exactly ceil(total / 1000) page requests; with total = 0 the   *)
(* sequence is empty after 1 request, with total = 2500 there are 4        *)
(* requests.                                                               *)
C1_RequestCount ==
    gpc = "done" =>
        /\ Len(requests) = 1 + Ceil(total, offset)
        /\ requests[1].op = "probe"
        /\ Values(Query(requests[1]), "limit") = {<<"1">>}
        /\ Count(Query(requests[1]), "start") = 0
        /\ \A i \in 2..Len(requests) : requests[i].op = "page"
        /\ Len(PageRequests) = Ceil(total, offset)
        /\ (total = 0 => yielded = <<>> /\ Len(requests) = 1)
        /\ (total = 2500 => Len(requests) = 4)

C1_Witness ==
    /\ gpc = "done"
    /\ total = 2500
    /\ Len(requests) = 4
    /\ yielded # <<>>

(* C2: at every moment the items delivered so far, followed by the items   *)
(* still to be delivered of the current page, are the concatenation of the *)
(* page responses' items in request order (one items list per answered    *)
(* page request); at the end the delivered sequence is that concatenation, *)
(* whatever the probe's own items were.                                    *)
C2_YieldedIsConcatenation ==
    /\ yielded \o buf = Flatten(pages)
    /\ gpc = "done" => yielded = Flatten(pages)
    /\ Len(pages) = Len(PageRequests) -
                       (IF gerr # None /\ requests[Len(requests)].op = "page" THEN 1 ELSE 0)

C2_Witness ==
    /\ gpc = "done"
    /\ probeItems # <<>>
    /\ Len(pages) = 3
    /\ pages[2] = <<>>
    /\ Len(yielded) = 2
    /\ yielded[1] = yielded[2]
    /\ yielded[1] # probeItems[1]

(* C3: every page request of get_ous goes to {base}/o/{org}/ou/ with       *)
(* exactly one limit parameter, 1000, exactly one start parameter,         *)
(* 1000*(k-1), and root exactly when a root was given, and nothing else.   *)
C3_OuPageQuery ==
    gkind = "ou" =>
        \A k \in 1..Len(PageRequests) :
            LET q == Query(PageRequests[k])
            IN  /\ UrlPath(PageRequests[k].url) = CollectionPath
                /\ Count(q, "limit") = 1
                /\ Values(q, "limit") = {<<ToString(offset)>>}
                /\ Count(q, "start") = 1
                /\ Values(q, "start") = {<<ToString(offset * (k - 1))>>}
                /\ IF Truthy(groot)
                   THEN Count(q, "root") = 1 /\ Values(q, "root") = {<<groot>>}
                   ELSE Count(q, "root") = 0
                /\ Len(q) = (IF Truthy(groot) THEN 3 ELSE 2)

(* C4: the k-th page request of get_employees goes to {base}/o/{org}/e/    *)
(* with limit = 1000 and start = 1000*(k-1), and that start is below total *)
C4_EmployeePageQuery ==
    gkind = "e" =>
        \A k \in 1..Len(PageRequests) :
            LET q == Query(PageRequests[k])
            IN  /\ UrlPath(PageRequests[k].url) = CollectionPath
                /\ Count(q, "limit") = 1
                /\ Values(q, "limit") = {<<ToString(offset)>>}
                /\ Count(q, "start") = 1
                /\ Values(q, "start") = {<<ToString(offset * (k - 1))>>}
                /\ offset * (k - 1) < total
                /\ Len(q) = 2

C4_Witness ==
    /\ gkind = "e"
    /\ gpc = "done"
    /\ Len(PageRequests) = 3
    /\ Values(Query(PageRequests[3]), "start") = {<<"2000">>}

(* C10: once a request of a listing has failed the generator is finished   *)
(* with that error: the consumer holds exactly the items of the pages      *)
(* answered before, the failed request is the last one issued (a failed    *)
(* probe is the only request and nothing was delivered), and no step       *)
(* issues another request or delivers another item.                        *)
C10_State ==
    gerr # None =>
        LET n == Len(requests)
        IN  /\ gpc = "failed"
            /\ gerr = HTTPError
            /\ buf = <<>>
            /\ yielded = Flatten(pages)
            /\ requests[n].op = "probe" => n = 1 /\ yielded = <<>> /\ pages = <<>>
            /\ requests[n].op = "page" =>
                   /\ n = Len(pages) + 2
                   /\ Len(PageRequests) = Len(pages) + 1
                   /\ start = offset * Len(pages)

C10_FailureAborts ==
    /\ []C10_State
    /\ [][gerr # None => requests' = requests /\ yielded' = yielded /\ gerr' = gerr]_vars

C10_Witness ==
    /\ gerr # None
    /\ Len(pages) = 2
    /\ Len(yielded) = 2
    /\ yielded[1] # yielded[2]
    /\ Len(PageRequests) = 3

C10_WitnessProbe ==
    /\ gerr # None
    /\ Len(requests) = 1

-----------------------------------------------------------------------------
(* Properties of construction, checked under SpecConnector *)

(* C8: constructed without an org_uuid, and the discovery answered with    *)
(* n >= 1 organisations: one discovery request was issued, org_id is the   *)
(* uuid of the first organisation, one warning is logged if n > 1 and none *)
(* otherwise, and construction succeeded.                                  *)
C8_Discovery ==
    (cstate # "new" /\ ~Truthy(org_arg) /\ Len(organisations) >= 1) =>
        /\ Len(requests) = 1
        /\ requests[1].op = "discovery"
        /\ requests[1].url = mo_url \o <<"/o/">>
        /\ org_id = organisations[1].uuid
        /\ warnings = (IF Len(organisations) > 1 THEN 1 ELSE 0)
        /\ cstate = "ready"
        /\ cerr = None

C8_Witness ==
    /\ cstate = "ready"
    /\ org_arg = None
    /\ Len(organisations) = 2
    /\ organisations[1].uuid # organisations[2].uuid
    /\ org_id = organisations[1].uuid
    /\ warnings = 1

(* C9: a constructed Connector has a non-empty org_id; given an org_uuid   *)
(* it is that org_uuid and no request was issued; an empty discovery       *)
(* answer fails construction with the no-organisation error.               *)
C9_OrgIdNonEmpty ==
    /\ cstate = "ready" => Truthy(org_id)
    /\ (cstate = "ready" /\ org_arg \in OrgIds) => org_id = org_arg /\ requests = <<>>
    /\ (cstate # "new" /\ ~Truthy(org_arg) /\ cerr # HTTPError /\ organisations = <<>>) =>
           /\ cstate = "failed"
           /\ cerr = "NoOrganizationFound"
           /\ org_id = None
    /\ cstate = "failed" => org_id = None

C9_Witness ==
    /\ cstate = "failed"
    /\ cerr = "NoOrganizationFound"
    /\ Len(requests) = 1
    /\ org_arg = ""

-----------------------------------------------------------------------------
(* Properties of one entity, checked under SpecEntity *)

DetailRequests(n) ==
    SelectSeq(requests, LAMBDA r : r.op = "detail" /\ r.url = DetailUrl(n))

Answered(reqs) == SelectSeq(reqs, LAMBDA r : r.ok)

Present(n) == details.cached /\ n \in DOMAIN details.val /\ details.val[n]

Absent(n) == details.cached /\ n \in DOMAIN details.val /\ ~details.val[n]

Unknown(n) == details.cached /\ n \notin DOMAIN details.val

(* C5: for a name whose index flag is truthy, at most one payload request  *)
(* is ever answered and none follows it; the request is issued by the      *)
(* first call that returns, a repeated call issues none when no request    *)
(* of the entity failed, exactly one request was issued when none for the  *)
(* name failed, and every returning call returns the payload of that       *)
(* request, an empty list included.                                        *)
C5_PayloadOnce ==
    \A n \in Names :
        Present(n) =>
            LET reqs == DetailRequests(n)
            IN  /\ Len(Answered(reqs)) <= 1
                /\ Len(got[n]) = Len(Answered(reqs))
                /\ Len(got[n]) = 1 =>
                       /\ reqs[Len(reqs)].ok
                       /\ n \in DOMAIN stored_details
                       /\ stored_details[n] = got[n][1]
                /\ n \in DOMAIN stored_details => Len(got[n]) = 1
                /\ (n \in DOMAIN stored_details /\ Answered(reqs) = reqs) => Len(reqs) = 1
                /\ (ret.name = n /\ ret.kind = "value") =>
                       /\ Len(got[n]) = 1
                       /\ ret.value = got[n][1]
                       /\ ~ret.repeat => ret.reqs \in {<<"detail">>, <<"index", "detail">>}
                       /\ (ret.repeat /\ Failed = {}) => ret.reqs = <<>>

C5_Witness ==
    /\ Present("manager")
    /\ ret.name = "manager"
    /\ ret.repeat
    /\ ret.kind = "value"
    /\ ret.value = <<>>
    /\ ret.reqs = <<>>
    /\ got["manager"] = <<(<<>>)>>
    /\ Len(DetailRequests("manager")) = 1
    /\ Failed = {}

(* C6: for a name that is a key of the index with a falsy flag, no payload *)
(* request is ever issued, and every call returns an empty list having     *)
(* issued at most the index request (a call fails only when that index     *)
(* request fails).                                                         *)
C6_AbsentDetail ==
    \A n \in Names :
        Absent(n) =>
            /\ DetailRequests(n) = <<>>
            /\ got[n] = <<>>
            /\ n \in DOMAIN stored_details => stored_details[n] = <<>>
            /\ ret.name = n =>
                   \/ /\ ret.kind = "value"
                      /\ ret.value = <<>>
                      /\ ret.reqs \in {<<>>, <<"index">>}
                   \/ /\ ret.kind = HTTPError
                      /\ ret.reqs = <<"index">>

C6_Witness ==
    /\ Absent("address")
    /\ Present("manager")
    /\ Len(DetailRequests("manager")) = 1
    /\ ret.name = "address"
    /\ ret.repeat
    /\ ret.kind = "value"
    /\ ret.value = <<>>
    /\ ret.reqs = <<>>

(* C7: for a name that is no key of the index, every call fails with       *)
(* AttributeError having issued at most the index request, no payload      *)
(* request for it exists, and the call leaves _stored_details as it was.   *)
C7_State ==
    \A n \in Names :
        Unknown(n) =>
            /\ DetailRequests(n) = <<>>
            /\ n \notin DOMAIN stored_details
            /\ ret.name = n =>
                   \/ /\ ret.kind = "AttributeError"
                      /\ ret.reqs \in {<<>>, <<"index">>}
                   \/ /\ ret.kind = HTTPError
                      /\ ret.reqs = <<"index">>

C7_UnknownName ==
    /\ []C7_State
    /\ [][ret'.kind = "AttributeError" =>
              stored_details' = stored_details /\ got' = got]_vars

C7_Witness ==
    /\ Unknown("engagement")
    /\ ret.name = "engagement"
    /\ ret.kind = "AttributeError"
    /\ ret.repeat
    /\ ret.reqs = <<>>
    /\ Present("manager")
    /\ "manager" \in DOMAIN stored_details
    /\ stored_details["manager"] # <<>>
    /\ Absent("address")
    /\ "address" \in called

(* C11: a payload request carries, as its one validity parameter, the      *)
(* validity the entity has when the request is issued, which is "present"  *)
(* for a wrapper created without a validity; and a call for a name that    *)
(* has an entry in _stored_details issues no request and returns that      *)
(* entry, whatever the validity is by then.                                *)
C11_Validity ==
    [][/\ (ekind = None /\ ekind' # None /\ validity_arg' = None) => validity' = "present"
       /\ \A i \in (Len(requests) + 1)..Len(requests') :
              requests'[i].op = "detail" =>
                  /\ Count(Query(requests'[i]), "validity") = 1
                  /\ Values(Query(requests'[i]), "validity") = {<<validity>>}
       /\ \A n \in DOMAIN stored_details :
              (ret'.name = n /\ ret' # ret) =>
                  /\ requests' = requests
                  /\ stored_details' = stored_details
                  /\ ret'.kind = "value"
                  /\ ret'.value = stored_details[n]]_vars

C11_Witness ==
    /\ validity_arg = None
    /\ validity = "all"
    /\ Present("manager")
    /\ Len(DetailRequests("manager")) = 1
    /\ Values(Query(DetailRequests("manager")[1]), "validity") = {<<"present">>}
    /\ ret.name = "manager"
    /\ ret.repeat
    /\ ret.kind = "value"
    /\ ret.reqs = <<>>
    /\ ret.value = got["manager"][1]
    /\ ret.value # <<>>

(* C12: the page requests of a listing are counted by start and total      *)
(* alone: total is the probe's and is never reassigned, every answered     *)
(* page is handed to yield from whatever its items and its own total are,  *)
(* and the generator returns exactly when start has reached total.         *)
C12_TotalGovernsPaging ==
    /\ [](gpc \in {"loop", "yielding", "done"} =>
             /\ Len(PageRequests) = (start \div offset) + (IF gpc = "yielding" THEN 1 ELSE 0)
             /\ gpc = "yielding" => start < total
             /\ gpc = "done" => (start >= total /\ start - offset < total))
    /\ [][/\ gpc \notin {"none", "created"} => total' = total
          /\ pages' # pages => (gpc' = "yielding" /\ start' = start)]_vars

C12_Witness ==
    /\ gpc = "done"
    /\ total = 1500
    /\ Len(PageRequests) = 2
    /\ pages[1] = <<>>
    /\ resp.total # total

(* C19: calling get_ous or get_employees issues no request; a request is   *)
(* issued only while the consumer waits for an item and every item of the  *)
(* pages requested so far was delivered; a consumer that is not waiting    *)
(* holds an item of the latest page requested.                             *)
C19_Lazy ==
    /\ [](gpc = "created" => requests = <<>>)
    /\ []((~pending /\ gpc = "yielding") => Len(buf) < Len(pages[Len(pages)]))
    /\ [][requests' # requests =>
              (pending /\ buf = <<>> /\ yielded = Flatten(pages))]_vars

C19_Witness ==
    /\ ~pending
    /\ gpc = "yielding"
    /\ buf = <<>>
    /\ total > offset
    /\ Len(PageRequests) = 1
    /\ Len(pages) = 1
    /\ yielded = pages[1]
    /\ yielded # <<>>

(* C13 as stated: a name whose flag is falsy never gets an entry in        *)
(* _stored_details.                                                        *)
C13_NoEntryForAbsent ==
    \A n \in Names : Absent(n) => n \notin DOMAIN stored_details

(* C13: a call for a name whose flag is falsy issues no payload request    *)
(* and returns [], and the first such call inserts the entry name -> []    *)
(* in _stored_details, leaving every other entry as it is; no call changes *)
(* it afterwards.                                                          *)
C13_AbsentEntry ==
    /\ [](\A n \in Names : Absent(n) =>
             /\ DetailRequests(n) = <<>>
             /\ n \in DOMAIN stored_details => (stored_details[n] = <<>> /\ n \in called)
             /\ (ret.name = n /\ ret.kind = "value") =>
                    (ret.value = <<>> /\ n \in DOMAIN stored_details))
    /\ [][\A n \in Names :
              (Absent(n)' /\ ret'.name = n /\ ret'.kind = "value" /\ ret' # ret) =>
                  stored_details' = Put(stored_details, n, <<>>)]_vars

C13_Witness ==
    /\ Absent("address")
    /\ Present("manager")
    /\ ret.name = "address"
    /\ ret.kind = "value"
    /\ ~ret.repeat
    /\ ret.value = <<>>
    /\ "address" \in DOMAIN stored_details
    /\ "manager" \notin DOMAIN stored_details

IndexRequestAt == {i \in 1..Len(requests) : requests[i].op = "index"}

DetailRequestAt == {i \in 1..Len(requests) : requests[i].op = "detail"}

(* C15: the index request goes to {url}details/, is issued by the first    *)
(* call, is answered at most once and never issued after it was answered,  *)
(* and an answered index request precedes every payload request.           *)
C15_IndexOnce ==
    LET oks == {i \in IndexRequestAt : requests[i].ok}
    IN  /\ Cardinality(oks) <= 1
        /\ \A i \in oks : \A j \in IndexRequestAt : j <= i
        /\ \A j \in DetailRequestAt : \E i \in oks : i < j
        /\ \A i \in IndexRequestAt :
               requests[i].url = DetailsUrl /\ requests[i].params = <<>>
        /\ called # {} => IndexRequestAt # {}
        /\ details.cached <=> oks # {}

C15_Witness ==
    /\ called = Names
    /\ Cardinality(IndexRequestAt) = 1
    /\ DetailRequestAt # {}
    /\ \E n \in Names : Absent(n)
    /\ ret.reqs = <<>>

(* The requests a step has issued *)
NewRequests == SubSeq(requests', Len(requests) + 1, Len(requests'))

(* A step that is a call of __getattr__ *)
IsCall == ret'.name \in Names /\ (ret' # ret \/ requests' # requests)

(* C18: a request that fails ends the call with the HTTP error and stores  *)
(* nothing: after a failed payload request the name has no entry and the   *)
(* index is still cached, after a failed index request no index is cached; *)
(* the next call for the name issues the payload request alone, and a call *)
(* on an entity without a cached index starts with the index request.      *)
C18_FailureNotCached ==
    /\ []((ret.kind = HTTPError /\ ret.reqs # <<>>) =>
             IF ret.reqs[Len(ret.reqs)] = "detail"
             THEN Present(ret.name) /\ ret.name \notin DOMAIN stored_details
             ELSE ~details.cached /\ stored_details = EmptyDict)
    /\ [][/\ (NewRequests # <<>> /\ ~NewRequests[Len(NewRequests)].ok) =>
                 /\ ret'.kind = HTTPError
                 /\ stored_details' = stored_details
                 /\ details.cached => details' = details
                 /\ details'.cached <=> NewRequests[Len(NewRequests)].op = "detail"
          /\ (IsCall /\ ~details.cached) =>
                 (NewRequests # <<>> /\ NewRequests[1].op = "index")
          /\ (IsCall /\ details.cached) =>
                 \A i \in 1..Len(NewRequests) : NewRequests[i].op # "index"
          /\ \A n \in Names :
                 (IsCall /\ ret'.name = n /\ Present(n) /\ n \notin DOMAIN stored_details) =>
                     /\ Len(NewRequests) = 1
                     /\ NewRequests[1].op = "detail"
                     /\ NewRequests[1].url = DetailUrl(n)]_vars

C18_Witness ==
    /\ Len(DetailRequests("manager")) = 2
    /\ ~DetailRequests("manager")[1].ok
    /\ DetailRequests("manager")[2].ok
    /\ Cardinality(IndexRequestAt) = 1
    /\ ret.name = "manager"
    /\ ret.kind = "value"
    /\ ret.reqs = <<"detail">>
    /\ "manager" \in DOMAIN stored_details

(* The state of the pair (entity, detail name) *)
PairState(n) ==
    IF ~details.cached THEN "NotRequested"
    ELSE IF n \notin DOMAIN details.val THEN "Unknown"
    ELSE IF ~details.val[n] THEN "KnownAbsent"
    ELSE IF n \in DOMAIN stored_details THEN "Cached"
    ELSE "Fetching"

(* C14: no step replaces or removes a cached json, children list, detail   *)
(* index or entry of _stored_details, and a pair that is KnownAbsent or     *)
(* Cached stays in that state.                                             *)
C14_WriteOnce ==
    [][/\ ent_json.cached => ent_json' = ent_json
       /\ ent_children.cached => ent_children' = ent_children
       /\ details.cached => details' = details
       /\ \A n \in DOMAIN stored_details :
              n \in DOMAIN stored_details' /\ stored_details'[n] = stored_details[n]
       /\ \A n \in Names :
              PairState(n) \in {"KnownAbsent", "Cached"} => PairState(n)' = PairState(n)]_vars

C14_Witness ==
    /\ ent_json.cached
    /\ ent_children.cached
    /\ PairState("manager") = "Cached"
    /\ PairState("address") = "KnownAbsent"
    /\ stored_details["manager"] # <<>>
    /\ validity = "all"
    /\ Values(Query(DetailRequests("manager")[1]), "validity") = {<<"present">>}
    /\ ret.name = "json"
    /\ ret.reqs = <<>>
    /\ Failed # {}

PropRequestAt(name) == {i \in 1..Len(requests) : requests[i].op = name}

PropUrl(name) == IF name = "json" THEN EntityUrl ELSE ChildrenUrl

(* C16: json is requested from the entity's url and children from          *)
(* url + children/; for each at most one request is answered and none is   *)
(* issued after it, every read that returns returns what that request was  *)
(* answered; a read of json or children issues no index or payload request *)
(* and leaves _details and _stored_details as they are.                    *)
C16_PropertiesOnce ==
    /\ [](\A name \in PropNames :
             LET at == PropRequestAt(name)
                 oks == {i \in at : requests[i].ok}
             IN  /\ Cardinality(oks) <= 1
                 /\ \A i \in oks : \A j \in at : j <= i
                 /\ \A i \in at : requests[i].url = PropUrl(name) /\ requests[i].params = <<>>
                 /\ Len(got[name]) = Cardinality(oks)
                 /\ (ret.name = name /\ ret.kind = "value") =>
                        (got[name] # <<>> /\ ret.value = got[name][1]))
    /\ [][(ret'.name \in PropNames /\ ret' # ret) =>
              /\ details' = details
              /\ stored_details' = stored_details
              /\ \A i \in 1..Len(NewRequests) : NewRequests[i].op = ret'.name]_vars

C16_Witness ==
    /\ Len(got["json"]) = 1
    /\ Len(got["children"]) = 1
    /\ Cardinality(PropRequestAt("json")) = 1
    /\ Cardinality(PropRequestAt("children")) = 2
    /\ ret.name = "children"
    /\ ret.repeat
    /\ ret.reqs = <<>>
    /\ ret.value = <<"child1">>
    /\ details.cached
    /\ "manager" \in DOMAIN stored_details

(* C17: an entity issues, for one name, no more payload requests than it   *)
(* has callers: one at most while a single caller uses it, whatever the    *)
(* other caller does on another entity. (That two are issued when both     *)
(* callers make the first access to the same name is the state of          *)
(* C17_Witness.)                                                           *)
C17_OnePerCaller ==
    \A e \in RaceUuids : \A n \in RaceNames :
        ents[e].sent[n] <= Cardinality(ents[e].users)

C17_Witness ==
    /\ ents["uuid1"].users = Threads
    /\ ents["uuid1"].sent["manager"] = 2
    /\ ents["uuid2"].users = {"t1"}
    /\ ents["uuid2"].sent["manager"] = 1
    /\ ents["uuid2"].index_sent = 1
    /\ \A t \in Threads : threads[t].pc = "idle"
====
